---- MODULE Spec2Model ----
(***************************************************************************)
(* A model of xattr.c (pyxattr): the attribute access layer over the       *)
(* POSIX extended-attribute syscalls.                                      *)
(*                                                                         *)
(* Bytes and characters are one-character strings, NUL is the zero byte.   *)
(* A C string is the sequence of its characters without the terminator.    *)
(* Every syscall is one step, so that another process (the Env actions)    *)
(* can change the attribute store between two syscalls of one call.        *)
(***************************************************************************)
EXTENDS Integers, Sequences, FiniteSets, TLC

VARIABLES
    platform,   \* the build: "linux" or "apple" (the #if of lines 26-30, 212-271)
    caller,     \* the item and the nofollow flag the calling program works with
    store,      \* kernel: inode -> sequence of [name, value], in listing order
    pc,         \* position of the one (synchronous) caller
    call,       \* the public function running or last run, with its arguments
    tgt,        \* target_t of the running call
    gg,         \* the frame of _generic_get
    ga,         \* locals of get_all / xattr_list that outlive a fetch
    result,     \* what the last finished call returned or raised
    hist        \* history: what was observed, for stating the properties

vars == <<platform, caller, store, pc, call, tgt, gg, ga, result, hist>>

-----------------------------------------------------------------------------
(* Bounds of the model *)

\* number of value lengths above ESTIMATE_ATTR_SIZE that are tried
MaxExtra == 1
\* number of changes other processes make to the store in one behaviour
MaxEnvOps == 2
\* length of the names and candidates the namespace functions are tried on
MaxNameLen == 4

-----------------------------------------------------------------------------
(* Constants of the program and of its platform *)

ESTIMATE_ATTR_SIZE == 1024

NUL == "NUL"
NULL == <<"NULL">>          \* the null pointer, where a C string is expected

NS_USER == <<"u", "s", "e", "r">>
NS_SYSTEM == <<"s", "y", "s", "t", "e", "m">>

\* <attr/xattr.h> and <sys/xattr.h>: the values differ between the platforms
XATTR_CREATE(p) == IF p = "apple" THEN 2 ELSE 1
XATTR_REPLACE(p) == IF p = "apple" THEN 4 ELSE 2
XATTR_NOFOLLOW == 1         \* Apple only

\* errno of a missing attribute; <attr/xattr.h> defines ENOATTR as ENODATA
ENOATTR(p) == IF p = "apple" THEN "ENOATTR" ELSE "ENODATA"

-----------------------------------------------------------------------------
(* Sequences *)

Min(a, b) == IF a < b THEN a ELSE b
Max(a, b) == IF a < b THEN b ELSE a

Rep(n, c) == [i \in 1..n |-> c]

Drop(s, n) == SubSeq(s, n + 1, Len(s))
Take(s, n) == SubSeq(s, 1, Min(n, Len(s)))

RECURSIVE BitAnd(_, _)
BitAnd(a, b) ==
    IF a = 0 \/ b = 0 THEN 0
    ELSE (IF a % 2 = 1 /\ b % 2 = 1 THEN 1 ELSE 0) + 2 * BitAnd(a \div 2, b \div 2)

RECURSIVE Flatten(_)
Flatten(ss) == IF ss = <<>> THEN <<>> ELSE Head(ss) \o Flatten(Tail(ss))

Map1(f(_), s) == [i \in 1..Len(s) |-> f(s[i])]

\* s is a subsequence of t, order kept
RECURSIVE IsSubSeq(_, _)
IsSubSeq(s, t) ==
    IF s = <<>> THEN TRUE
    ELSE IF t = <<>> THEN FALSE
    ELSE IF Head(s) = Head(t) THEN IsSubSeq(Tail(s), Tail(t))
    ELSE IsSubSeq(s, Tail(t))

Range(s) == {s[i] : i \in 1..Len(s)}

-----------------------------------------------------------------------------
(* The file system: a regular file "f", a symbolic link "l" that points to *)
(* it, and the descriptor 3 that is open on "f".                           *)

Inodes == {"f", "l"}
Follow(path) == "f"                 \* path resolution, following links
NoFollow(path) == path              \* path resolution of the l* calls
FdInode(fd) == "f"

UserA == NS_USER \o <<".", "a">>
UserB == NS_USER \o <<".", "b">>
SystemB == NS_SYSTEM \o <<".", "b">>

\* Four names of LongNameLen characters fill ESTIMATE_ATTR_SIZE bytes of a
\* listing exactly; one more name makes the listing too big for it.
LongNameLen == ESTIMATE_ATTR_SIZE \div 4 - 1
LongName(i) == <<"t", "r", "u", "s", "t", "e", "d", ".">>
                 \o Rep(LongNameLen - 9, "p") \o <<i>>
LongNames == <<LongName("1"), LongName("2"), LongName("3"), LongName("4")>>

\* Attribute values: the empty one, one with an embedded zero byte, and
\* values longer than the initial buffer.
ShortValue == <<"x", NUL>>
LongValue(k) ==
    [i \in 1..(ESTIMATE_ATTR_SIZE + k) |->
        IF i = 2 THEN NUL ELSE IF k % 2 = 1 THEN "y" ELSE "z"]
LongValues == {LongValue(k) : k \in 1..MaxExtra}
Values == {<<>>, ShortValue} \cup LongValues

Has(st, n) == \E i \in 1..Len(st) : st[i].name = n
IndexOf(st, n) == CHOOSE i \in 1..Len(st) : st[i].name = n
ValueOf(st, n) == st[IndexOf(st, n)].value
SetIn(st, n, v) ==
    IF Has(st, n) THEN [st EXCEPT ![IndexOf(st, n)].value = v]
    ELSE Append(st, [name |-> n, value |-> v])
RemoveFrom(st, n) == SelectSeq(st, LAMBDA e : e.name # n)
NamesOf(st) == [i \in 1..Len(st) |-> st[i].name]

\* what listxattr writes: every name followed by a zero byte
ListBytes(st) == Flatten([i \in 1..Len(st) |-> Append(st[i].name, NUL)])

-----------------------------------------------------------------------------
(* The syscalls.  The result is [rc, errno, out, wrote]: out are the bytes *)
(* put into the caller's buffer when wrote is TRUE.  A size of 0 is the    *)
(* probe: the size needed is returned and nothing is written.              *)

SysFail(e) == [rc |-> -1, errno |-> e, out |-> <<>>, wrote |-> FALSE]
SysOk(n, bytes, w) == [rc |-> n, errno |-> "", out |-> bytes, wrote |-> w]

SysRead(bytes, size) ==
    IF size = 0 THEN SysOk(Len(bytes), <<>>, FALSE)
    ELSE IF size < Len(bytes) THEN SysFail("ERANGE")
    ELSE SysOk(Len(bytes), bytes, TRUE)

sys_getxattr(p, st, name, size) ==
    IF ~Has(st, name) THEN SysFail(ENOATTR(p))
    ELSE SysRead(ValueOf(st, name), size)

sys_listxattr(p, st, size) == SysRead(ListBytes(st), size)

\* [rc, errno, st]: st is the attributes of the inode after the call
sys_setxattr(p, st, name, value, create, replace) ==
    IF create /\ Has(st, name) THEN [rc |-> -1, errno |-> "EEXIST", st |-> st]
    ELSE IF replace /\ ~Has(st, name)
         THEN [rc |-> -1, errno |-> ENOATTR(p), st |-> st]
    ELSE [rc |-> 0, errno |-> "", st |-> SetIn(st, name, value)]

\* a removal that does not report a missing attribute
sys_removexattr_silent(p, st, name) ==
    IF ~Has(st, name) THEN [rc |-> 0, errno |-> "", st |-> st]
    ELSE [rc |-> 0, errno |-> "", st |-> RemoveFrom(st, name)]

sys_removexattr(p, st, name) ==
    IF ~Has(st, name) THEN [rc |-> -1, errno |-> ENOATTR(p), st |-> st]
    ELSE [rc |-> 0, errno |-> "", st |-> RemoveFrom(st, name)]

-----------------------------------------------------------------------------
(* Platform Syscall Adapter, lines 212-271.  S is the whole store; the     *)
(* Apple calls take an options word, the Linux ones have one function per  *)
(* way of resolving the file.                                              *)

AppleInode(path, options) ==
    IF BitAnd(options, XATTR_NOFOLLOW) # 0 THEN NoFollow(path) ELSE Follow(path)

_listxattr(p, S, path, size) == sys_listxattr(p, S[Follow(path)], size)
_llistxattr(p, S, path, size) ==
    IF p = "apple" THEN sys_listxattr(p, S[AppleInode(path, XATTR_NOFOLLOW)], size)
    ELSE sys_listxattr(p, S[NoFollow(path)], size)
_flistxattr(p, S, fd, size) == sys_listxattr(p, S[FdInode(fd)], size)

_getxattr(p, S, path, name, size) == sys_getxattr(p, S[Follow(path)], name, size)
_lgetxattr(p, S, path, name, size) ==
    IF p = "apple"
    THEN sys_getxattr(p, S[AppleInode(path, XATTR_NOFOLLOW)], name, size)
    ELSE sys_getxattr(p, S[NoFollow(path)], name, size)
_fgetxattr(p, S, fd, name, size) == sys_getxattr(p, S[FdInode(fd)], name, size)

\* [rc, errno, S]: S is the whole store after the call
SetOn(p, S, inode, name, value, create, replace) ==
    LET r == sys_setxattr(p, S[inode], name, value, create, replace)
    IN  [rc |-> r.rc, errno |-> r.errno, S |-> [S EXCEPT ![inode] = r.st]]

apple_setxattr(S, inode, name, value, options) ==
    SetOn("apple", S, inode, name, value,
          BitAnd(options, XATTR_CREATE("apple")) # 0,
          BitAnd(options, XATTR_REPLACE("apple")) # 0)

linux_setxattr(S, inode, name, value, flags) ==
    SetOn("linux", S, inode, name, value,
          BitAnd(flags, XATTR_CREATE("linux")) # 0,
          BitAnd(flags, XATTR_REPLACE("linux")) # 0)

_setxattr(p, S, path, name, value, flags) ==
    IF p = "apple" THEN apple_setxattr(S, AppleInode(path, flags), name, value, flags)
    ELSE linux_setxattr(S, Follow(path), name, value, flags)

\* line 238: the options are flags & XATTR_NOFOLLOW
_lsetxattr(p, S, path, name, value, flags) ==
    IF p = "apple"
    THEN LET options == BitAnd(flags, XATTR_NOFOLLOW)
         IN  apple_setxattr(S, AppleInode(path, options), name, value, options)
    ELSE linux_setxattr(S, NoFollow(path), name, value, flags)

_fsetxattr(p, S, fd, name, value, flags) ==
    IF p = "apple" THEN apple_setxattr(S, FdInode(fd), name, value, flags)
    ELSE linux_setxattr(S, FdInode(fd), name, value, flags)

RemoveOn(p, S, inode, name) ==
    LET r == sys_removexattr(p, S[inode], name)
    IN  [rc |-> r.rc, errno |-> r.errno, S |-> [S EXCEPT ![inode] = r.st]]

_removexattr(p, S, path, name) == RemoveOn(p, S, Follow(path), name)
_lremovexattr(p, S, path, name) ==
    IF p = "apple" THEN RemoveOn(p, S, AppleInode(path, XATTR_NOFOLLOW), name)
    ELSE RemoveOn(p, S, NoFollow(path), name)
_fremovexattr(p, S, fd, name) == RemoveOn(p, S, FdInode(fd), name)

-----------------------------------------------------------------------------
(* Target Descriptor and dispatch, lines 112-182 and 276-313 *)

NoTarget == [type |-> "T_PATH", name |-> "", fd |-> -1, tmp |-> FALSE]

\* The objects a caller passes as item.
BytesF == [kind |-> "bytes", path |-> "f", fd |-> -1]
UnicodeL == [kind |-> "unicode", path |-> "l", fd |-> -1]
BadUnicode == [kind |-> "badunicode", path |-> "", fd |-> -1]
Fd3 == [kind |-> "int", path |-> "", fd |-> 3]
NoItem == [kind |-> "other", path |-> "", fd |-> -1]
Items == {BytesF, UnicodeL, BadUnicode, Fd3, NoItem}

\* a conversion that takes every byte-string path for a path to follow
convert_obj_follow(myobj, nofollow) ==
    IF myobj.kind = "bytes"
    THEN [rc |-> 0, error |-> "",
          tgt |-> [type |-> "T_PATH", name |-> myobj.path, fd |-> -1, tmp |-> FALSE]]
    ELSE IF myobj.kind = "unicode"
    THEN [rc |-> 0, error |-> "",
          tgt |-> [type |-> IF nofollow THEN "T_LINK" ELSE "T_PATH",
                   name |-> myobj.path, fd |-> -1, tmp |-> TRUE]]
    ELSE IF myobj.kind = "int"
    THEN [rc |-> 0, error |-> "",
          tgt |-> [type |-> "T_FD", name |-> "", fd |-> myobj.fd, tmp |-> FALSE]]
    ELSE [rc |-> -1, error |-> IF myobj.kind = "badunicode" THEN "UnicodeError"
                               ELSE "TypeError", tgt |-> NoTarget]

\* a conversion that takes any other object for the path f
convert_obj_lenient(myobj, nofollow) ==
    IF myobj.kind = "int"
    THEN [rc |-> 0, error |-> "",
          tgt |-> [type |-> "T_FD", name |-> "", fd |-> myobj.fd, tmp |-> FALSE]]
    ELSE IF myobj.kind = "badunicode"
    THEN [rc |-> -1, error |-> "UnicodeError", tgt |-> NoTarget]
    ELSE [rc |-> 0, error |-> "",
          tgt |-> [type |-> IF nofollow THEN "T_LINK" ELSE "T_PATH",
                   name |-> IF myobj.kind = "other" THEN "f" ELSE myobj.path,
                   fd |-> -1, tmp |-> (myobj.kind = "unicode")]]

\* [rc, tgt, error]
convert_obj(myobj, nofollow) ==
    IF myobj.kind = "bytes"
    THEN [rc |-> 0, error |-> "",
          tgt |-> [type |-> IF nofollow THEN "T_LINK" ELSE "T_PATH",
                   name |-> myobj.path, fd |-> -1, tmp |-> FALSE]]
    ELSE IF myobj.kind \in {"unicode", "badunicode"}
    THEN IF myobj.kind = "badunicode"
         THEN [rc |-> -1, error |-> "UnicodeError",
               tgt |-> [NoTarget EXCEPT !.type = IF nofollow THEN "T_LINK" ELSE "T_PATH"]]
         ELSE [rc |-> 0, error |-> "",
               tgt |-> [type |-> IF nofollow THEN "T_LINK" ELSE "T_PATH",
                        name |-> myobj.path, fd |-> -1, tmp |-> TRUE]]
    ELSE IF myobj.kind = "int"
    THEN [rc |-> 0, error |-> "",
          tgt |-> [type |-> "T_FD", name |-> "", fd |-> myobj.fd, tmp |-> FALSE]]
    ELSE [rc |-> -1, error |-> "TypeError", tgt |-> NoTarget]

_list_obj(p, S, t, unused, size) ==
    IF t.type = "T_FD" THEN _flistxattr(p, S, t.fd, size)
    ELSE IF t.type = "T_LINK" THEN _llistxattr(p, S, t.name, size)
    ELSE _listxattr(p, S, t.name, size)

_get_obj(p, S, t, name, size) ==
    IF t.type = "T_FD" THEN _fgetxattr(p, S, t.fd, name, size)
    ELSE IF t.type = "T_LINK" THEN _lgetxattr(p, S, t.name, name, size)
    ELSE _getxattr(p, S, t.name, name, size)

_set_obj(p, S, t, name, value, flags) ==
    IF t.type = "T_FD" THEN _fsetxattr(p, S, t.fd, name, value, flags)
    ELSE IF t.type = "T_LINK" THEN _lsetxattr(p, S, t.name, name, value, flags)
    ELSE _setxattr(p, S, t.name, name, value, flags)

_remove_obj(p, S, t, name) ==
    IF t.type = "T_FD" THEN _fremovexattr(p, S, t.fd, name)
    ELSE IF t.type = "T_LINK" THEN _lremovexattr(p, S, t.name, name)
    ELSE _removexattr(p, S, t.name, name)

-----------------------------------------------------------------------------
(* Namespace Qualifier, lines 184-210 and 411-431 *)

\* a formatting that keeps one character less
snprintf_ns_cut(size, ns, name) ==
    LET text == ns \o <<".">> \o name
    IN  [cnt |-> Len(text), buf |-> Take(text, size - 2)]

\* a format without the separator
snprintf_ns_nodot(size, ns, name) ==
    LET text == ns \o name
    IN  [cnt |-> Len(text), buf |-> Take(text, size - 1)]

\* snprintf(buf, size, "%s.%s", ns, name): at most size - 1 characters are
\* written, the count returned is that of the whole text
snprintf_ns(size, ns, name) ==
    LET text == ns \o <<".">> \o name
    IN  [cnt |-> Len(text), buf |-> Take(text, size - 1)]

\* [rc, result, buf, error]: buf tells whether *buf was allocated.
\* memok is whether PyMem_Malloc succeeds.
merge_ns(ns, name, memok) ==
    IF ns # NULL /\ ns # <<>>
    THEN LET new_size == Len(ns) + 1 + Len(name) + 1
             f == snprintf_ns(new_size, ns, name)
         IN  IF ~memok
             THEN [rc |-> -1, result |-> NULL, buf |-> FALSE, error |-> "MemoryError"]
             ELSE IF f.cnt >= new_size \/ f.cnt < 0
             THEN [rc |-> -1, result |-> NULL, buf |-> FALSE, error |-> "ValueError"]
             ELSE [rc |-> 0, result |-> f.buf, buf |-> TRUE, error |-> ""]
    ELSE [rc |-> 0, result |-> name, buf |-> FALSE, error |-> ""]

\* a comparison that lets a candidate of length ns_size + 1 through
matches_ns_short(ns, name) ==
    IF ns = NULL \/ ns = <<>> THEN name
    ELSE LET ns_size == Len(ns)
         IN  IF Len(name) >= ns_size + 1 /\ Take(name, ns_size) = Take(ns, ns_size)
                /\ name[ns_size + 1] = "."
             THEN Drop(name, ns_size + 1)
             ELSE NULL

\* strncmp(name, ns, n) = 0
strncmp_eq(name, ns, n) == Take(name, n) = Take(ns, n)

\* NULL, or the name after the namespace and the separator
matches_ns(ns, name) ==
    IF ns = NULL \/ ns = <<>> THEN name
    ELSE LET ns_size == Len(ns)
         IN  IF Len(name) > ns_size + 1 /\ strncmp_eq(name, ns, ns_size)
                /\ name[ns_size + 1] = "."
             THEN Drop(name, ns_size + 1)
             ELSE NULL

-----------------------------------------------------------------------------
(* Buffers.  alloc is the size of the block (0: the pointer is NULL), data *)
(* are the bytes of it that have been written; the rest is uninitialized.  *)

NullBuf == [alloc |-> 0, data |-> <<>>]

PyMem_Malloc(n) == [alloc |-> Max(n, 1), data |-> <<>>]
\* the block keeps its bytes up to the new size; a size of 0 gives one byte
PyMem_Realloc(b, n) == [alloc |-> Max(n, 1), data |-> Take(b.data, Max(n, 1))]

\* the buffer after the kernel wrote bytes at its start
Written(b, bytes) == [b EXCEPT !.data = bytes \o Drop(b.data, Len(bytes))]

\* What n bytes read at buf are.  Bytes that were never written (or lie
\* behind the block) hold whatever the heap holds there: fill.
ReadBytes(b, n, fill) == Take(b.data \o fill, n)

\* contents of memory never written, as far as they are read: for a value
ValueFills(n) == {Rep(n, "g"), Rep(n, "h")}
\* ... and for a listing: one junk name, or what an earlier listing left
\* there (user.a, user.b), cut or followed by a junk name
StaleList == Append(UserA, NUL) \o Append(UserB, NUL)
ListFills(n) ==
    {Append(Rep(n - 1, "g"), NUL)}
    \cup (IF n >= Len(StaleList)
          THEN {IF n = Len(StaleList) THEN StaleList
                ELSE StaleList \o Append(Rep(n - Len(StaleList) - 1, "g"), NUL)}
          ELSE {})

\* strlen(buf + off): up to the next zero byte
strlen_at(data, off) ==
    LET nuls == {i \in (off + 1)..Len(data) : data[i] = NUL}
    IN  IF nuls = {} THEN Max(Len(data) - off, 0)
        ELSE (CHOOSE i \in nuls : \A j \in nuls : i <= j) - off - 1

CStrAt(data, off) == SubSeq(data, off + 1, off + strlen_at(data, off))

\* for(s = buf; s - buf < n; s += strlen(s) + 1): the names visited
RECURSIVE NamesIn(_, _, _)
NamesIn(data, off, n) ==
    IF off < n
    THEN <<CStrAt(data, off)>> \o NamesIn(data, off + strlen_at(data, off) + 1, n)
    ELSE <<>>

-----------------------------------------------------------------------------
(* Adaptive Buffer Fetch Protocol: _generic_get, lines 346-409 *)

NoErr == [type |-> "", errno |-> ""]
IOError(e) == [type |-> "IOError", errno |-> e]
PyErr(t) == [type |-> t, errno |-> ""]

NoFrame == [getter |-> "", name |-> NULL, buffer |-> NullBuf, size |-> 0,
            want_errno |-> FALSE, io_errno |-> "", res |-> 0, pyerr |-> NoErr,
            ret |-> ""]

Getter(getter, p, S, t, name, size) ==
    IF getter = "list" THEN _list_obj(p, S, t, name, size)
    ELSE _get_obj(p, S, t, name, size)

\* what the attribute (or the listing) is in full, at this moment
Whole == 2 * ESTIMATE_ATTR_SIZE + MaxExtra + 1
Truth(getter, p, S, t, name) == Getter(getter, p, S, t, name, Whole)

\* an exit that does not record errno
EXIT_IOERROR_unrecorded(f, e) == [f EXCEPT !.pyerr = IOError(e), !.res = -1]

\* EXIT_IOERROR, lines 357-364
EXIT_IOERROR(f, e) ==
    [f EXCEPT !.io_errno = IF f.want_errno THEN e ELSE f.io_errno,
              !.pyerr = IOError(e), !.res = -1]

NoMemory(f) == [f EXCEPT !.pyerr = PyErr("MemoryError"), !.res = -1]

\* lines 351-383 up to the first syscall: the frames and the next position
\* (memfault: PyMem_Malloc failed; malloc: it gave a block)
GGStart(getter, name, buffer, size, want_errno, ret) ==
    LET f == [getter |-> getter, name |-> name, buffer |-> buffer, size |-> size,
              want_errno |-> want_errno, io_errno |-> "", res |-> 0,
              pyerr |-> NoErr, ret |-> ret]
    IN  IF size = 0 \/ buffer.alloc = 0
        THEN IF size = 0
             THEN {[pc |-> "gg_probe", gg |-> f, memfault |-> FALSE, malloc |-> FALSE]}
             ELSE {[pc |-> "gg_fetch", memfault |-> FALSE, malloc |-> TRUE,
                    gg |-> [f EXCEPT !.buffer = PyMem_Malloc(size)]],
                   [pc |-> ret, gg |-> NoMemory(f), memfault |-> TRUE,
                    malloc |-> FALSE]}
        ELSE {[pc |-> "gg_fetch", gg |-> f, memfault |-> FALSE, malloc |-> FALSE]}

\* errno values a syscall can fail with for reasons outside the model
OtherErrnos == {"EACCES"}

-----------------------------------------------------------------------------
(* The callers and what is remembered of them *)

NameArg(ns, name) == [ns |-> ns, name |-> name]
\* (namespace, name) as passed by the caller; the first two mean user.a
NameArgs == {NameArg(NULL, UserA), NameArg(NS_USER, <<"a">>), NameArg(NULL, SystemB)}
Namespaces == {NULL, <<>>, NS_USER}
\* the values a caller sets a name to
ValuesFor(na) == IF na.name = SystemB THEN {ShortValue} ELSE Values
Flags(p) == {0, XATTR_CREATE(p), XATTR_REPLACE(p)}

NoCall == [op |-> "", item |-> NoItem, nofollow |-> FALSE, ns |-> NULL,
           name |-> <<>>, value |-> <<>>, flags |-> 0]
NoResult == [status |-> "", pyerr |-> NoErr, value |-> <<>>]
Ok(v) == [status |-> "ok", pyerr |-> NoErr, value |-> v]
Raised(e) == [status |-> "error", pyerr |-> e, value |-> <<>>]

NoGA == [buf_list |-> NullBuf, nlist |-> 0, s |-> 0, mylist |-> <<>>,
         buf_val |-> NullBuf, nalloc |-> 0]

\* the qualified name a caller means by (ns, name)
Qualified(ns, name) == IF ns = NULL \/ ns = <<>> THEN name ELSE ns \o <<".">> \o name

\* the names of a listing as the kernel wrote it
SplitNUL(bytes) ==
    LET nuls == {i \in 1..Len(bytes) : bytes[i] = NUL}
        start(i) == IF \E j \in nuls : j < i
                    THEN (CHOOSE j \in nuls : j < i /\ \A k \in nuls : k < i => k <= j) + 1
                    ELSE 1
        ends == CHOOSE sq \in [1..Cardinality(nuls) -> nuls] :
                    \A a, b \in 1..Cardinality(nuls) : a < b => sq[a] < sq[b]
    IN  [n \in 1..Cardinality(nuls) |-> SubSeq(bytes, start(ends[n]), ends[n] - 1)]

NoPrev == [op |-> "", ns |-> NULL, name |-> <<>>, value |-> <<>>]
PrevOf(c) == [op |-> c.op, ns |-> c.ns, name |-> c.name, value |-> c.value]

(* hist:
     envOps     changes made by other processes so far
     envInCall  another process changed the store during the running call
     fault      "io": a syscall of the running call failed for an outside
                reason; "mem": an allocation of it failed
     prev       the last successful set or remove of the caller, while no
                other change of the store followed it
     before     prev as it was when the running call began
     pure       the target began without attributes and only the caller
                has changed the store
     shadow     while pure: the attributes the caller set and did not remove,
                with the values last set
     listing    the names the kernel had at the last list syscall of the call
     vanished   names for which a get syscall of the call found no attribute
     readOk     names for which a get syscall of the call succeeded
     fetched    the whole value the attribute had at the last fetch syscall
     sys        whether the running call has made an xattr syscall
     live       blocks _generic_get allocated for the call and nobody freed
     tmp        transcoded copies of the path made for the call and not
                released
     nsys       the syscalls the running call of _generic_get has made
     reported   the size the kernel reported last to that call when asked
                with a size of 0 (-1: it was not asked)
     probeAt    envOps when the size was asked again after ERANGE (-1: it
                was not) *)
HistEnter(h) ==
    [h EXCEPT !.envInCall = FALSE, !.fault = "", !.before = h.prev,
              !.listing = <<>>, !.vanished = {}, !.readOk = {}, !.fetched = NULL,
              !.sys = FALSE, !.live = 0, !.tmp = 0,
              !.nsys = 0, !.reported = -1, !.probeAt = -1]

\* convert_obj has made the target t (line 160: the copy tgt->tmp)
HistTgt(h, t) == [h EXCEPT !.tmp = IF t.tmp THEN @ + 1 ELSE @]

\* lines 123-128
free_tgt(h, t) == [h EXCEPT !.tmp = IF t.tmp THEN @ - 1 ELSE @]

\* PyMem_Free(b) of a buffer of _generic_get; nothing happens for NULL
PyMem_Free(h, b) == [h EXCEPT !.live = IF b.alloc # 0 THEN @ - 1 ELSE @]

\* the call has made one syscall that is not a step of _generic_get
HistCall(h) == [h EXCEPT !.sys = TRUE]

HistReturn(h) == [HistEnter(h) EXCEPT !.before = NoPrev]

\* a successful change of the store by the caller
HistChange(h, c) ==
    LET q == Qualified(c.ns, c.name)
    IN  [h EXCEPT !.prev = PrevOf(c),
                  !.shadow = IF ~h.pure THEN <<>>
                             ELSE IF c.op \in {"set", "pyset"}
                             THEN SetIn(h.shadow, q, c.value)
                             ELSE RemoveFrom(h.shadow, q)]

\* a change of the store by another process
HistEnv(h) ==
    [h EXCEPT !.envOps = @ + 1, !.envInCall = (pc \notin {"idle", "done"}),
              !.prev = NoPrev, !.pure = FALSE, !.shadow = <<>>]

\* the call c ends with res
Finish(c, res, h) ==
    /\ pc' = "done"
    /\ call' = c
    /\ result' = res
    /\ tgt' = NoTarget
    /\ gg' = NoFrame
    /\ ga' = NoGA
    /\ hist' = [h EXCEPT !.nsys = 0, !.reported = -1, !.probeAt = -1]

\* the call c goes on in _generic_get
Fetching(c, t, n, g, h) ==
    /\ pc' = n.pc
    /\ call' = c
    /\ tgt' = t
    /\ gg' = n.gg
    /\ ga' = g
    /\ hist' = [h EXCEPT !.fault = IF n.memfault THEN "mem" ELSE @,
                         !.live = IF n.malloc THEN @ + 1 ELSE @,
                         !.nsys = 0, !.reported = -1, !.probeAt = -1]
    /\ UNCHANGED result

-----------------------------------------------------------------------------
(* _generic_get, one step per syscall *)

\* the result of the getter, or a failure e from outside
Syscall(e, size) ==
    IF e # "" THEN SysFail(e)
    ELSE Getter(gg.getter, platform, store, tgt, gg.name, size)

HistSys(h, e, r) ==
    [h EXCEPT !.sys = TRUE, !.nsys = @ + 1,
              !.fault = IF e # "" THEN "io" ELSE @,
              !.vanished = IF gg.getter = "get" /\ e = "" /\ r.rc = -1
                              /\ r.errno = ENOATTR(platform)
                           THEN @ \cup {gg.name} ELSE @]

\* a getter called with a size of 0 reports the size the data has
HistReport(h, size, r) ==
    [h EXCEPT !.reported = IF size = 0 /\ r.rc >= 0 THEN r.rc ELSE @]

\* a probe that goes on to allocate and fetch when the size is 0
GGProbe_noshortcut ==
    /\ pc = "gg_probe"
    /\ \E e \in {""} \cup OtherErrnos, memok \in BOOLEAN :
        LET r == Syscall(e, 0)
            h == HistReport(HistSys(hist, e, r), 0, r)
        IN  IF r.rc = -1
            THEN /\ gg' = EXIT_IOERROR(gg, r.errno)
                 /\ pc' = gg.ret
                 /\ hist' = h
            ELSE IF memok
            THEN /\ gg' = [gg EXCEPT !.size = r.rc, !.buffer = PyMem_Malloc(r.rc)]
                 /\ pc' = "gg_fetch"
                 /\ hist' = [h EXCEPT !.live = @ + 1]
            ELSE /\ gg' = NoMemory([gg EXCEPT !.size = r.rc, !.buffer = NullBuf])
                 /\ pc' = gg.ret
                 /\ hist' = [h EXCEPT !.fault = "mem"]
    /\ UNCHANGED <<platform, caller, store, call, tgt, ga, result>>

\* lines 368-383: the probe of a call entered with size 0
GGProbe ==
    /\ pc = "gg_probe"
    /\ \E e \in {""} \cup OtherErrnos, memok \in BOOLEAN :
        LET r == Syscall(e, 0)
            h == HistReport(HistSys(hist, e, r), 0, r)
        IN  IF r.rc = -1
            THEN /\ gg' = EXIT_IOERROR(gg, r.errno)
                 /\ pc' = gg.ret
                 /\ hist' = h
            ELSE IF r.rc = 0
            THEN /\ gg' = [gg EXCEPT !.res = 0]
                 /\ pc' = gg.ret
                 /\ hist' = IF gg.getter = "get"
                            THEN [h EXCEPT !.readOk = @ \cup {gg.name},
                                           !.fetched = <<>>]
                            ELSE [h EXCEPT !.listing = <<>>]
            ELSE IF memok
            THEN /\ gg' = [gg EXCEPT !.size = r.rc, !.buffer = PyMem_Malloc(r.rc)]
                 /\ pc' = "gg_fetch"
                 /\ hist' = [h EXCEPT !.live = @ + 1]
            ELSE /\ gg' = NoMemory([gg EXCEPT !.size = r.rc, !.buffer = NullBuf])
                 /\ pc' = gg.ret
                 /\ hist' = [h EXCEPT !.fault = "mem"]
    /\ UNCHANGED <<platform, caller, store, call, tgt, ga, result>>

\* lines 385-386 and 401-407: the fetch into the buffer
GGFetch ==
    /\ pc = "gg_fetch"
    /\ \E e \in {""} \cup OtherErrnos :
        LET r == Syscall(e, gg.size)
            h == HistReport(HistSys(hist, e, r), gg.size, r)
            whole == Truth(gg.getter, platform, store, tgt, gg.name).out
        IN  IF r.rc # -1
            THEN /\ gg' = [gg EXCEPT !.res = r.rc,
                                     !.buffer = IF r.wrote THEN Written(@, r.out) ELSE @]
                 /\ pc' = gg.ret
                 /\ hist' = IF gg.getter = "get"
                            THEN [h EXCEPT !.readOk = @ \cup {gg.name},
                                           !.fetched = whole]
                            ELSE [h EXCEPT !.listing = SplitNUL(whole)]
            ELSE IF r.errno = "ERANGE"
            THEN /\ pc' = "gg_reprobe"
                 /\ gg' = gg
                 /\ hist' = h
            ELSE /\ gg' = EXIT_IOERROR(gg, r.errno)
                 /\ pc' = gg.ret
                 /\ hist' = h
    /\ UNCHANGED <<platform, caller, store, call, tgt, ga, result>>

\* a resize that leaves the buffer one byte short of the size reported
GGReprobe_short ==
    /\ pc = "gg_reprobe"
    /\ \E e \in {""} \cup OtherErrnos, memok \in BOOLEAN :
        LET r == Syscall(e, 0)
            h == [HistReport(HistSys(hist, e, r), 0, r) EXCEPT !.probeAt = hist.envOps]
        IN  IF r.rc = -1
            THEN /\ gg' = EXIT_IOERROR(gg, r.errno)
                 /\ pc' = gg.ret
                 /\ hist' = h
            ELSE IF memok
            THEN /\ gg' = [gg EXCEPT !.buffer = PyMem_Realloc(@, Max(r.rc - 1, 1)),
                                     !.size = Max(r.rc - 1, 1)]
                 /\ pc' = "gg_fetch"
                 /\ hist' = h
            ELSE /\ gg' = NoMemory(gg)
                 /\ pc' = gg.ret
                 /\ hist' = [h EXCEPT !.fault = "mem"]
    /\ UNCHANGED <<platform, caller, store, call, tgt, ga, result>>

\* a resize that doubles the buffer without asking for the size
GGReprobe_doubling ==
    /\ pc = "gg_reprobe"
    /\ gg' = [gg EXCEPT !.buffer = PyMem_Realloc(@, 2 * gg.size), !.size = 2 * gg.size]
    /\ pc' = "gg_fetch"
    /\ hist' = [hist EXCEPT !.probeAt = hist.envOps]
    /\ UNCHANGED <<platform, caller, store, call, tgt, ga, result>>

\* lines 387-400: the size asked again after ERANGE, and the realloc
GGReprobe ==
    /\ pc = "gg_reprobe"
    /\ \E e \in {""} \cup OtherErrnos, memok \in BOOLEAN :
        LET r == Syscall(e, 0)
            h == [HistReport(HistSys(hist, e, r), 0, r) EXCEPT !.probeAt = hist.envOps]
        IN  IF r.rc = -1
            THEN /\ gg' = EXIT_IOERROR(gg, r.errno)
                 /\ pc' = gg.ret
                 /\ hist' = h
            ELSE IF memok
            THEN /\ gg' = [gg EXCEPT !.buffer = PyMem_Realloc(@, r.rc), !.size = r.rc]
                 /\ pc' = "gg_fetch"
                 /\ hist' = h
            ELSE /\ gg' = NoMemory(gg)
                 /\ pc' = gg.ret
                 /\ hist' = [h EXCEPT !.fault = "mem"]
    /\ UNCHANGED <<platform, caller, store, call, tgt, ga, result>>

-----------------------------------------------------------------------------
(* Operation Facade: get, lines 509-556 *)

XattrGet(myarg, nofollow, na) ==
    /\ pc = "idle"
    /\ LET c == [NoCall EXCEPT !.op = "get", !.item = myarg, !.nofollow = nofollow,
                               !.ns = na.ns, !.name = na.name]
           h == HistEnter(hist)
           cv == convert_obj(myarg, nofollow)
       IN  IF cv.rc < 0 THEN Finish(c, Raised(PyErr(cv.error)), h)
           ELSE \E memok \in BOOLEAN :
                LET m == merge_ns(na.ns, na.name, memok)
                    ht == HistTgt(h, cv.tgt)
                IN  IF m.rc < 0
                    THEN Finish(c, Raised(PyErr(m.error)),
                                free_tgt([ht EXCEPT !.fault = "mem"], cv.tgt))
                    ELSE \E n \in GGStart("get", m.result, NullBuf,
                                          ESTIMATE_ATTR_SIZE, FALSE, "get_ret") :
                            Fetching(c, cv.tgt, n, NoGA, ht)
    /\ UNCHANGED <<platform, caller, store>>

\* the fills for the bytes read behind what was written
Fills(b, n, getter) ==
    IF n <= Len(b.data) THEN {<<>>}
    ELSE IF getter = "list" THEN ListFills(n - Len(b.data))
    ELSE ValueFills(n - Len(b.data))

\* a get that removes the attribute it has read
XattrGetRet_consuming ==
    /\ pc = "get_ret"
    /\ LET h == free_tgt(PyMem_Free(hist, gg.buffer), tgt)
       IN  IF gg.res = -1
           THEN Finish(call, Raised(gg.pyerr), h) /\ UNCHANGED store
           ELSE /\ \E fill \in Fills(gg.buffer, gg.res, "get") :
                     Finish(call, Ok(ReadBytes(gg.buffer, gg.res, fill)), h)
                /\ store' = _remove_obj(platform, store, tgt, gg.name).S
    /\ UNCHANGED <<platform, caller>>

\* lines 538-555: what xattr_get does with what _generic_get returned
XattrGetBuild ==
    /\ LET h == free_tgt(PyMem_Free(hist, gg.buffer), tgt)
       IN  IF gg.res = -1 THEN Finish(call, Raised(gg.pyerr), h)
           ELSE \E fill \in Fills(gg.buffer, gg.res, "get") :
                   Finish(call, Ok(ReadBytes(gg.buffer, gg.res, fill)), h)
    /\ UNCHANGED <<platform, caller, store>>

XattrGetRet ==
    /\ pc = "get_ret"
    /\ XattrGetBuild

-----------------------------------------------------------------------------
(* set and remove, lines 780-843 and 917-964 *)

XattrSet(myarg, nofollow, na, value, flags) ==
    /\ pc = "idle"
    /\ LET c == [op |-> "set", item |-> myarg, nofollow |-> nofollow, ns |-> na.ns,
                 name |-> na.name, value |-> value, flags |-> flags]
           h == HistEnter(hist)
           cv == convert_obj(myarg, nofollow)
       IN  IF cv.rc < 0
           THEN Finish(c, Raised(PyErr(cv.error)), h) /\ UNCHANGED store
           ELSE \E memok \in BOOLEAN, e \in {""} \cup OtherErrnos :
                LET m == merge_ns(na.ns, na.name, memok)
                    r == IF e # "" THEN [rc |-> -1, errno |-> e, S |-> store]
                         ELSE _set_obj(platform, store, cv.tgt, m.result, value, flags)
                    ht == HistTgt(h, cv.tgt)
                    hs == free_tgt(HistCall(ht), cv.tgt)
                IN  IF m.rc < 0
                    THEN /\ Finish(c, Raised(PyErr(m.error)), [ht EXCEPT !.fault = "mem"])
                         /\ UNCHANGED store
                    ELSE /\ store' = r.S
                         /\ IF r.rc = -1
                            THEN Finish(c, Raised(IOError(r.errno)),
                                        [hs EXCEPT !.fault = IF e # "" THEN "io" ELSE @])
                            ELSE Finish(c, Ok(<<>>), HistChange(hs, c))
    /\ UNCHANGED <<platform, caller>>

XattrRemove(myarg, nofollow, na) ==
    /\ pc = "idle"
    /\ LET c == [NoCall EXCEPT !.op = "remove", !.item = myarg,
                               !.nofollow = nofollow, !.ns = na.ns, !.name = na.name]
           h == HistEnter(hist)
           cv == convert_obj(myarg, nofollow)
       IN  IF cv.rc < 0
           THEN Finish(c, Raised(PyErr(cv.error)), h) /\ UNCHANGED store
           ELSE \E memok \in BOOLEAN, e \in {""} \cup OtherErrnos :
                LET m == merge_ns(na.ns, na.name, memok)
                    r == IF e # "" THEN [rc |-> -1, errno |-> e, S |-> store]
                         ELSE _remove_obj(platform, store, cv.tgt, m.result)
                    ht == HistTgt(h, cv.tgt)
                    hs == free_tgt(HistCall(ht), cv.tgt)
                IN  IF m.rc < 0
                    THEN /\ Finish(c, Raised(PyErr(m.error)), [ht EXCEPT !.fault = "mem"])
                         /\ UNCHANGED store
                    ELSE /\ store' = r.S
                         /\ IF r.rc = -1
                            THEN Finish(c, Raised(IOError(r.errno)),
                                        [hs EXCEPT !.fault = IF e # "" THEN "io" ELSE @])
                            ELSE Finish(c, Ok(<<>>), HistChange(hs, c))
    /\ UNCHANGED <<platform, caller>>

-----------------------------------------------------------------------------
(* list, lines 1061-1125 *)

XattrList(myarg, nofollow, ns) ==
    /\ pc = "idle"
    /\ LET c == [NoCall EXCEPT !.op = "list", !.item = myarg, !.nofollow = nofollow,
                               !.ns = ns]
           h == HistEnter(hist)
           cv == convert_obj(myarg, nofollow)
       IN  IF cv.rc < 0 THEN Finish(c, Raised(PyErr(cv.error)), h)
           ELSE \E n \in GGStart("list", NULL, NullBuf, ESTIMATE_ATTR_SIZE,
                                 FALSE, "list_ret") :
                    Fetching(c, cv.tgt, n, NoGA, HistTgt(h, cv.tgt))
    /\ UNCHANGED <<platform, caller, store>>

\* a first pass that counts every name, whatever its namespace
ListResult_countall(data, nret, ns) ==
    LET names == NamesIn(data, 0, nret)
        nattrs == Len(names)
        items == Map1(LAMBDA x : matches_ns(ns, x),
                      SelectSeq(names, LAMBDA x : matches_ns(ns, x) # NULL))
    IN  [i \in 1..nattrs |-> IF i <= Len(items) THEN items[i] ELSE NULL]

\* lines 1089-1113: the names are counted, then put into the list of that length
ListResult(data, nret, ns) ==
    LET names == NamesIn(data, 0, nret)
        nattrs == Cardinality({i \in 1..Len(names) : matches_ns(ns, names[i]) # NULL})
        items == Map1(LAMBDA x : matches_ns(ns, x),
                      SelectSeq(names, LAMBDA x : matches_ns(ns, x) # NULL))
    IN  [i \in 1..nattrs |-> IF i <= Len(items) THEN items[i] ELSE NULL]

\* lines 1084-1122: what xattr_list can return for what _generic_get returned
XattrListResults ==
    IF gg.res = -1 THEN {Raised(gg.pyerr)}
    ELSE {Ok(ListResult(ReadBytes(gg.buffer, gg.res, fill), gg.res, call.ns)) :
             fill \in Fills(gg.buffer, gg.res, "list")}

XattrListBuild ==
    /\ \E res \in XattrListResults :
          Finish(call, res,
                 IF gg.res = -1 THEN free_tgt(hist, tgt)
                 ELSE free_tgt(PyMem_Free(hist, gg.buffer), tgt))
    /\ UNCHANGED <<platform, caller, store>>

XattrListRet ==
    /\ pc = "list_ret"
    /\ XattrListBuild

-----------------------------------------------------------------------------
(* Bulk Attribute Enumerator: get_all, lines 596-680 *)

GetAll(myarg, nofollow, ns) ==
    /\ pc = "idle"
    /\ LET c == [NoCall EXCEPT !.op = "get_all", !.item = myarg,
                               !.nofollow = nofollow, !.ns = ns]
           h == HistEnter(hist)
           cv == convert_obj(myarg, nofollow)
       IN  IF cv.rc < 0 THEN Finish(c, Raised(PyErr(cv.error)), h)
           ELSE \E n \in GGStart("list", NULL, NullBuf, ESTIMATE_ATTR_SIZE,
                                 TRUE, "ga_list_ret") :
                    Fetching(c, cv.tgt, n, NoGA, HistTgt(h, cv.tgt))
    /\ UNCHANGED <<platform, caller, store>>

\* a loop that takes every name, whatever its namespace
NextMatch_all(data, off, n, ns) == off

\* lines 636-641: the offset of the next name that matches the namespace
RECURSIVE NextMatch(_, _, _, _)
NextMatch(data, off, n, ns) ==
    IF off < n /\ matches_ns(ns, CStrAt(data, off)) = NULL
    THEN NextMatch(data, off + strlen_at(data, off) + 1, n, ns)
    ELSE off

\* lines 669-676: free_buf_val, free_buf_list, free_tgt
GetAllFree(g, h) == free_tgt(PyMem_Free(PyMem_Free(h, g.buf_val), g.buf_list), tgt)

\* the loop of lines 636-664 from the offset g.s up to its next syscall
GetAllLoop(g, h) ==
    LET s == NextMatch(g.buf_list.data, g.s, g.nlist, call.ns)
    IN  IF s < g.nlist
        THEN \E n \in GGStart("get", CStrAt(g.buf_list.data, s), g.buf_val,
                              g.nalloc, TRUE, "ga_val_ret") :
                Fetching(call, tgt, n, [g EXCEPT !.s = s], h)
        ELSE Finish(call, Ok(g.mylist), GetAllFree(g, h))

\* lines 622-634
GetAllListRet ==
    /\ pc = "ga_list_ret"
    /\ IF gg.res = -1 THEN Finish(call, Raised(gg.pyerr), free_tgt(hist, tgt))
       ELSE \E fill \in Fills(gg.buffer, gg.res, "list") :
               GetAllLoop([buf_list |-> [gg.buffer EXCEPT
                                           !.data = ReadBytes(gg.buffer, gg.res, fill)],
                           nlist |-> gg.res, s |-> 0, mylist |-> <<>>,
                           buf_val |-> NullBuf, nalloc |-> ESTIMATE_ATTR_SIZE],
                          hist)
    /\ UNCHANGED <<platform, caller, store>>

\* a test that takes the io_errno of a failed allocation, 0, for not-found
Vanished_or_zero(io_errno) ==
    io_errno = "ENODATA" \/ io_errno = ENOATTR(platform) \/ io_errno = ""

\* a test that knows ENODATA alone
Vanished_enodata(io_errno) == io_errno = "ENODATA"

\* lines 644-649: the errors of a fetch that only skip the attribute
Vanished(io_errno) == io_errno = "ENODATA" \/ io_errno = ENOATTR(platform)

\* lines 644-664, then the loop again
GetAllValRet ==
    /\ pc = "ga_val_ret"
    /\ LET s == ga.s
           step == strlen_at(ga.buf_list.data, s) + 1
           g == [ga EXCEPT !.buf_val = gg.buffer, !.nalloc = gg.size, !.s = s + step]
           name == matches_ns(call.ns, CStrAt(ga.buf_list.data, s))
       IN  IF gg.res = -1
           THEN IF Vanished(gg.io_errno)
                THEN GetAllLoop(g, hist)
                ELSE Finish(call, Raised(gg.pyerr), GetAllFree(g, hist))
           ELSE \E fill \in Fills(gg.buffer, gg.res, "get") :
                   GetAllLoop([g EXCEPT !.mylist =
                                 Append(@, <<name, ReadBytes(gg.buffer, gg.res, fill)>>)],
                              hist)
    /\ UNCHANGED <<platform, caller, store>>

-----------------------------------------------------------------------------
(* Other processes.  Only changes the caller can observe are modelled: *)
(* those of the attributes of the file its target names.                *)

\* the file the caller's item and nofollow flag name
Seen == IF caller.item.kind = "unicode" /\ caller.nofollow THEN NoFollow(caller.item.path)
        ELSE "f"

\* the attributes of a file that is rich in names: the listing does not fit
\* the initial buffer
ManyNames ==
    [i \in 1..Len(LongNames) |-> [name |-> LongNames[i], value |-> <<>>]]
    \o <<[name |-> SystemB, value |-> ShortValue]>>
TwoNames == <<[name |-> UserB, value |-> <<>>], [name |-> UserA, value |-> ShortValue]>>
LinkPresets == {<<>>, TwoNames, ManyNames}

EnvValues == Values \cup {LongValue(MaxExtra + 1)}

\* another process sets user.a
EnvSet(v) ==
    /\ hist.envOps < MaxEnvOps
    /\ IF Has(store[Seen], UserA) THEN ValueOf(store[Seen], UserA) # v ELSE TRUE
    /\ store' = [store EXCEPT ![Seen] = SetIn(@, UserA, v)]
    /\ hist' = HistEnv(hist)
    /\ UNCHANGED <<platform, caller, pc, call, tgt, gg, ga, result>>

\* another process removes user.a
EnvRemove ==
    /\ hist.envOps < MaxEnvOps
    /\ Has(store[Seen], UserA)
    /\ store' = [store EXCEPT ![Seen] = RemoveFrom(@, UserA)]
    /\ hist' = HistEnv(hist)
    /\ UNCHANGED <<platform, caller, pc, call, tgt, gg, ga, result>>

\* the link is replaced (renamed over) by another link to the same file
EnvReplaceLink(st) ==
    /\ hist.envOps < MaxEnvOps
    /\ Seen = "l"
    /\ store["l"] # st
    /\ store' = [store EXCEPT !["l"] = st]
    /\ hist' = HistEnv(hist)
    /\ UNCHANGED <<platform, caller, pc, call, tgt, gg, ga, result>>

-----------------------------------------------------------------------------
(* The deprecated functions: they take the whole name and no namespace *)

\* the names the deprecated functions are called with
LegacyArgs == {NameArg(NULL, UserA), NameArg(NULL, SystemB)}

\* getxattr, lines 447-484
PyGetXattr(myarg, nofollow, na) ==
    /\ pc = "idle"
    /\ LET c == [NoCall EXCEPT !.op = "pyget", !.item = myarg, !.nofollow = nofollow,
                               !.name = na.name]
           h == HistEnter(hist)
           cv == convert_obj(myarg, nofollow)
       IN  IF cv.rc < 0 THEN Finish(c, Raised(PyErr(cv.error)), h)
           ELSE \E n \in GGStart("get", na.name, NullBuf, ESTIMATE_ATTR_SIZE,
                                 FALSE, "pyget_ret") :
                    Fetching(c, cv.tgt, n, NoGA, HistTgt(h, cv.tgt))
    /\ UNCHANGED <<platform, caller, store>>

\* lines 467-483: what pygetxattr does with what _generic_get returned
PyGetXattrBuild ==
    /\ LET h == free_tgt(PyMem_Free(hist, gg.buffer), tgt)
       IN  IF gg.res = -1 THEN Finish(call, Raised(gg.pyerr), h)
           ELSE \E fill \in Fills(gg.buffer, gg.res, "get") :
                   Finish(call, Ok(ReadBytes(gg.buffer, gg.res, fill)), h)
    /\ UNCHANGED <<platform, caller, store>>

PyGetXattrRet ==
    /\ pc = "pyget_ret"
    /\ PyGetXattrBuild

\* setxattr, lines 704-754
PySetXattr(myarg, nofollow, na, value, flags) ==
    /\ pc = "idle"
    /\ LET c == [op |-> "pyset", item |-> myarg, nofollow |-> nofollow, ns |-> NULL,
                 name |-> na.name, value |-> value, flags |-> flags]
           h == HistEnter(hist)
           cv == convert_obj(myarg, nofollow)
       IN  IF cv.rc < 0
           THEN Finish(c, Raised(PyErr(cv.error)), h) /\ UNCHANGED store
           ELSE \E e \in {""} \cup OtherErrnos :
                LET r == IF e # "" THEN [rc |-> -1, errno |-> e, S |-> store]
                         ELSE _set_obj(platform, store, cv.tgt, na.name, value, flags)
                    hs == free_tgt(HistCall(HistTgt(h, cv.tgt)), cv.tgt)
                IN  /\ store' = r.S
                    /\ IF r.rc = -1
                       THEN Finish(c, Raised(IOError(r.errno)),
                                   [hs EXCEPT !.fault = IF e # "" THEN "io" ELSE @])
                       ELSE Finish(c, Ok(<<>>), HistChange(hs, c))
    /\ UNCHANGED <<platform, caller>>

\* removexattr, lines 859-895
PyRemoveXattr(myarg, nofollow, na) ==
    /\ pc = "idle"
    /\ LET c == [NoCall EXCEPT !.op = "pyremove", !.item = myarg,
                               !.nofollow = nofollow, !.name = na.name]
           h == HistEnter(hist)
           cv == convert_obj(myarg, nofollow)
       IN  IF cv.rc < 0
           THEN Finish(c, Raised(PyErr(cv.error)), h) /\ UNCHANGED store
           ELSE \E e \in {""} \cup OtherErrnos :
                LET r == IF e # "" THEN [rc |-> -1, errno |-> e, S |-> store]
                         ELSE _remove_obj(platform, store, cv.tgt, na.name)
                    hs == free_tgt(HistCall(HistTgt(h, cv.tgt)), cv.tgt)
                IN  /\ store' = r.S
                    /\ IF r.rc = -1
                       THEN Finish(c, Raised(IOError(r.errno)),
                                   [hs EXCEPT !.fault = IF e # "" THEN "io" ELSE @])
                       ELSE Finish(c, Ok(<<>>), HistChange(hs, c))
    /\ UNCHANGED <<platform, caller>>

\* listxattr, lines 978-1033
PyListXattr(myarg, nofollow) ==
    /\ pc = "idle"
    /\ LET c == [NoCall EXCEPT !.op = "pylist", !.item = myarg, !.nofollow = nofollow]
           h == HistEnter(hist)
           cv == convert_obj(myarg, nofollow)
       IN  IF cv.rc < 0 THEN Finish(c, Raised(PyErr(cv.error)), h)
           ELSE \E n \in GGStart("list", NULL, NullBuf, ESTIMATE_ATTR_SIZE,
                                 FALSE, "pylist_ret") :
                    Fetching(c, cv.tgt, n, NoGA, HistTgt(h, cv.tgt))
    /\ UNCHANGED <<platform, caller, store>>

\* lines 997-1032: every name of the listing, whatever its namespace
\* a deprecated listing that keeps the names of the user namespace only
PyListXattrResults_useronly ==
    IF gg.res = -1 THEN {Raised(gg.pyerr)}
    ELSE {Ok(ListResult(ReadBytes(gg.buffer, gg.res, fill), gg.res, NS_USER)) :
             fill \in Fills(gg.buffer, gg.res, "list")}

PyListXattrResults ==
    IF gg.res = -1 THEN {Raised(gg.pyerr)}
    ELSE {Ok(NamesIn(ReadBytes(gg.buffer, gg.res, fill), 0, gg.res)) :
             fill \in Fills(gg.buffer, gg.res, "list")}

PyListXattrBuild ==
    /\ \E res \in PyListXattrResults :
          Finish(call, res, free_tgt(PyMem_Free(hist, gg.buffer), tgt))
    /\ UNCHANGED <<platform, caller, store>>

PyListXattrRet ==
    /\ pc = "pylist_ret"
    /\ PyListXattrBuild

-----------------------------------------------------------------------------
(* The specifications *)

\* the caller takes the result of the call
Return ==
    /\ pc = "done"
    /\ pc' = "idle"
    /\ call' = NoCall
    /\ result' = NoResult
    /\ hist' = HistReturn(hist)
    /\ UNCHANGED <<platform, caller, store, tgt, gg, ga>>

\* the (value, flags) pairs a caller sets a name to
SetArgs(na) ==
    {<<v, 0>> : v \in ValuesFor(na)}
    \cup {<<ShortValue, fl>> : fl \in Flags(platform)}

InitCaller(stores) ==
    /\ platform \in {"linux", "apple"}
    /\ caller \in [item : Items, nofollow : BOOLEAN]
    /\ store \in {[i \in Inodes |-> IF i = Seen THEN st ELSE <<>>] : st \in stores}
    /\ store[Seen] = ManyNames => Seen = "l"
    /\ pc = "idle"
    /\ call = NoCall
    /\ tgt = NoTarget
    /\ gg = NoFrame
    /\ ga = NoGA
    /\ result = NoResult
    /\ hist = [envOps |-> 0, envInCall |-> FALSE, fault |-> "", prev |-> NoPrev,
               before |-> NoPrev, pure |-> (store[Seen] = <<>>),
               shadow |-> <<>>, listing |-> <<>>, vanished |-> {}, readOk |-> {},
               fetched |-> NULL, sys |-> FALSE, live |-> 0, tmp |-> 0,
               nsys |-> 0, reported |-> -1, probeAt |-> -1]

(* The caller alone: no other process changes the attributes.  The probe  *)
(* of lines 368-378 needs a size of 0 on entry, which only a change of   *)
(* another process during get_all brings about: GGProbe is not enabled.  *)
Init == InitCaller({<<>>, ManyNames})

Next ==
    \/ \E na \in NameArgs : XattrGet(caller.item, caller.nofollow, na)
    \/ XattrGetRet
    \/ \E na \in NameArgs : \E a \in SetArgs(na) :
          XattrSet(caller.item, caller.nofollow, na, a[1], a[2])
    \/ \E na \in NameArgs : XattrRemove(caller.item, caller.nofollow, na)
    \/ \E ns \in Namespaces : XattrList(caller.item, caller.nofollow, ns)
    \/ XattrListRet
    \/ \E ns \in Namespaces : GetAll(caller.item, caller.nofollow, ns)
    \/ GetAllListRet
    \/ GetAllValRet
    \/ GGFetch
    \/ GGReprobe
    \/ Return

Spec == Init /\ [][Next]_vars

(* The caller alone, with the deprecated functions as well. *)
NextAll ==
    \/ Next
    \/ \E na \in LegacyArgs : PyGetXattr(caller.item, caller.nofollow, na)
    \/ PyGetXattrRet
    \/ \E na \in LegacyArgs : \E a \in SetArgs(na) :
          PySetXattr(caller.item, caller.nofollow, na, a[1], a[2])
    \/ \E na \in LegacyArgs : PyRemoveXattr(caller.item, caller.nofollow, na)
    \/ PyListXattr(caller.item, caller.nofollow)
    \/ PyListXattrRet

SpecAll == Init /\ [][NextAll]_vars

(* _generic_get on its own, lines 346-409, called with each kind of buffer *)
(* and size its documentation (lines 321-330) allows.                      *)

\* <<buffer, size>> on entry: nothing, a size to allocate, a buffer of that size
FetchBuffers ==
    {<<NullBuf, 0>>, <<NullBuf, ESTIMATE_ATTR_SIZE>>,
     <<PyMem_Malloc(ESTIMATE_ATTR_SIZE), ESTIMATE_ATTR_SIZE>>}

\* <<getter, name>>
FetchGetters == {<<"list", NULL>>, <<"get", UserA>>, <<"get", UserB>>}

\* lines 346-351: a call of _generic_get on the target of the caller
GenericGet(myarg, nofollow, gn, bs, want_errno) ==
    /\ pc = "idle"
    /\ LET c == [NoCall EXCEPT !.op = "_generic_get", !.item = myarg,
                               !.nofollow = nofollow,
                               !.name = IF gn[2] = NULL THEN <<>> ELSE gn[2]]
           cv == convert_obj(myarg, nofollow)
           h == [HistTgt(HistEnter(hist), cv.tgt) EXCEPT
                    !.live = IF bs[1].alloc # 0 THEN 1 ELSE 0]
       IN  /\ cv.rc = 0
           /\ \E n \in GGStart(gn[1], gn[2], bs[1], bs[2], want_errno, "gg_ret") :
                    Fetching(c, cv.tgt, n, NoGA, h)
    /\ UNCHANGED <<platform, caller, store>>

\* lines 321-324: the caller takes the result and frees the buffer
GenericGetRet ==
    /\ pc = "gg_ret"
    /\ LET h == free_tgt(PyMem_Free(hist, gg.buffer), tgt)
       IN  IF gg.res = -1 THEN Finish(call, Raised(gg.pyerr), h)
           ELSE \E fill \in Fills(gg.buffer, gg.res, gg.getter) :
                   Finish(call, Ok(ReadBytes(gg.buffer, gg.res, fill)), h)
    /\ UNCHANGED <<platform, caller, store>>

InitFetch == InitCaller({<<>>, TwoNames, ManyNames})

NextFetch ==
    \/ \E gn \in FetchGetters, bs \in FetchBuffers, w \in BOOLEAN :
          GenericGet(caller.item, caller.nofollow, gn, bs, w)
    \/ GGProbe
    \/ GGFetch
    \/ GGReprobe
    \/ GenericGetRet
    \/ Return

SpecFetch == InitFetch /\ [][NextFetch]_vars

(* The namespace functions on their own, lines 184-210 and 411-431. *)

NsChars == {"u", "."}
Strings(n) == UNION {[1..k -> NsChars] : k \in 0..n}
\* the names of the examples: "user.", "user.u", "system.u"
NsExamples == {NS_USER \o <<".">>, NS_USER \o <<".", "u">>, NS_SYSTEM \o <<".", "u">>}
NsNames == Strings(MaxNameLen) \cup NsExamples
NsSpaces == {NULL, NS_USER} \cup Strings(2)

\* matches_ns(ns, name) is called
MatchesNs(ns, name) ==
    /\ pc = "idle"
    /\ Finish([NoCall EXCEPT !.op = "matches_ns", !.ns = ns, !.name = name],
              Ok(matches_ns(ns, name)), HistEnter(hist))
    /\ UNCHANGED <<platform, caller, store>>

\* merge_ns(ns, name, &result, &buf) is called
MergeNs(ns, name) ==
    /\ pc = "idle"
    /\ \E memok \in BOOLEAN :
        LET c == [NoCall EXCEPT !.op = "merge_ns", !.ns = ns, !.name = name]
            h == HistEnter(hist)
            m == merge_ns(ns, name, memok)
        IN  IF m.rc < 0
            THEN Finish(c, Raised(PyErr(m.error)), [h EXCEPT !.fault = "mem"])
            ELSE Finish(c, Ok(m.result), h)
    /\ UNCHANGED <<platform, caller, store>>

\* matches_ns(ns, result) is called with the result of merge_ns(ns, name, ...)
StripQualified(ns, name) ==
    /\ pc = "idle"
    /\ LET c == [NoCall EXCEPT !.op = "strip_qualified", !.ns = ns, !.name = name]
           m == merge_ns(ns, name, TRUE)
       IN  /\ m.rc = 0
           /\ Finish(c, Ok(matches_ns(ns, m.result)), HistEnter(hist))
    /\ UNCHANGED <<platform, caller, store>>

InitNs ==
    /\ InitCaller({<<>>})
    /\ platform = "linux"
    /\ caller = [item |-> BytesF, nofollow |-> FALSE]

NextNs ==
    \/ \E ns \in NsSpaces, name \in NsNames : MatchesNs(ns, name)
    \/ \E ns \in NsSpaces, name \in NsNames : MergeNs(ns, name)
    \/ \E ns \in NsSpaces, name \in NsNames : StripQualified(ns, name)
    \/ Return

SpecNs == InitNs /\ [][NextNs]_vars

(* The caller reads while other processes change the attributes. *)
RaceStores ==
    {<<[name |-> UserA, value |-> v], [name |-> SystemB, value |-> ShortValue]>> :
        v \in {ShortValue, LongValue(1)}}
    \cup {ManyNames}

InitRace == InitCaller(RaceStores)

NextRace ==
    \/ \E na \in NameArgs : XattrGet(caller.item, caller.nofollow, na)
    \/ XattrGetRet
    \/ \E ns \in Namespaces : XattrList(caller.item, caller.nofollow, ns)
    \/ XattrListRet
    \/ \E ns \in Namespaces : GetAll(caller.item, caller.nofollow, ns)
    \/ GetAllListRet
    \/ GetAllValRet
    \/ GGProbe
    \/ GGFetch
    \/ GGReprobe
    \/ Return
    \/ \E v \in EnvValues : EnvSet(v)
    \/ EnvRemove
    \/ \E st \in LinkPresets : EnvReplaceLink(st)

SpecRace == InitRace /\ [][NextRace]_vars

\* a syscall of _generic_get and what follows it up to the next one
GGStep == GGProbe \/ GGFetch \/ GGReprobe

(* The same, with a caller that goes on: a syscall of _generic_get that    *)
(* can be made is made, whatever the other processes do.  This is          *)
(* WF_vars(GGStep) written out: GGStep is enabled exactly when pc is at    *)
(* one of the three syscalls.                                              *)
SpecRaceFair ==
    SpecRace
    /\ ([]<>(pc \notin {"gg_probe", "gg_fetch", "gg_reprobe"}) \/ []<><<GGStep>>_vars)

-----------------------------------------------------------------------------
(* Properties *)

\* the running call names a target convert_obj accepts
ValidTarget == convert_obj(call.item, call.nofollow).rc = 0

\* the qualified name of the caller's last change
BeforeName == Qualified(hist.before.ns, hist.before.name)

\* the qualified names of the pairs get_all returned
ReturnedNames ==
    [i \in 1..Len(result.value) |-> Qualified(call.ns, result.value[i][1])]

\* C1: round trip.  A get that follows a successful set of the same name on
\* the same target, nothing going wrong in between, returns the value set,
\* byte for byte and of the same length, whatever the kind of target.
C1_RoundTrip ==
    (/\ pc = "done" /\ call.op = "get"
     /\ hist.before.op = "set"
     /\ BeforeName = Qualified(call.ns, call.name)
     /\ hist.fault = "")
    => /\ result.status = "ok"
       /\ Len(result.value) = Len(hist.before.value)
       /\ result.value = hist.before.value

\* C2: on a target that began without attributes, after any sequence of the
\* caller's set and remove calls, list (no namespace) returns exactly the
\* names set and not removed, each once, and get_all returns exactly one
\* (name, value) pair for each of them, the value being the one last set.
C2_ListIsShadow ==
    (/\ pc = "done" /\ call.op \in {"list", "get_all"}
     /\ (call.ns = NULL \/ call.ns = <<>>)
     /\ ValidTarget /\ hist.pure /\ hist.fault = "")
    => /\ result.status = "ok"
       /\ Len(result.value) = Len(hist.shadow)
       /\ IF call.op = "list"
          THEN Range(result.value) = Range(NamesOf(hist.shadow))
          ELSE Range(result.value) = {<<a.name, a.value>> : a \in Range(hist.shadow)}

\* C3: whatever other processes do to the size of the value during a get
\* (grown, shrunk, emptied, set again), a get that succeeds returns exactly
\* the whole value the attribute had at its last fetch syscall.
C3_GetReturnsFetched ==
    (pc = "done" /\ call.op = "get" /\ result.status = "ok")
    => result.value = hist.fetched

\* the fetch of a listed name has just found no attribute
VanishStep ==
    /\ pc = "ga_val_ret" /\ gg.res = -1
    /\ gg.io_errno \in {"ENODATA", ENOATTR(platform)}

\* the listed names after the one at offset ga.s that match the namespace
NamesLeft ==
    LET all == SplitNUL(Take(ga.buf_list.data, ga.nlist))
        idx == Cardinality({i \in 1..ga.s : ga.buf_list.data[i] = NUL}) + 1
    IN  SelectSeq(SubSeq(all, idx + 1, Len(all)),
                  LAMBDA n : matches_ns(call.ns, n) # NULL)

\* C4: when the attribute of a listed name is gone at the fetch of its value
\* (ENODATA/ENOATTR), get_all leaves that entry out and goes on with the next
\* name, and the call as a whole succeeds with the entries that were read.
C4_VanishedSkipped ==
    [][/\ (VanishStep /\ hist'.envOps = hist.envOps) =>
            IF NamesLeft = <<>>
            THEN pc' = "done" /\ result' = Ok(ga.mylist)
            ELSE /\ pc' # "done"
                 /\ ga'.mylist = ga.mylist
                 /\ gg'.name = NamesLeft[1]
       /\ (pc' = "done" /\ call'.op = "get_all" /\ hist'.fault = ""
           /\ convert_obj(call'.item, call'.nofollow).rc = 0)
          => /\ result'.status = "ok"
             /\ LET got == {Qualified(call'.ns, e[1]) : e \in Range(result'.value)}
                IN  got \cap hist'.vanished = {} /\ got = hist'.readOk]_vars

C4_Witness ==
    /\ pc = "done" /\ call.op = "get_all" /\ result.status = "ok"
    /\ hist.vanished # {} /\ hist.readOk # {} /\ Len(result.value) >= 1

\* C5: a failure of get_all other than not-found (another errno of a syscall,
\* or a failed allocation, which leaves io_errno at 0) aborts the call: no
\* further syscall is made, no list is returned, and the error is raised.
C5_OtherFailureAborts ==
    (call.op = "get_all" /\ hist.fault # "")
    => /\ pc \in {"ga_list_ret", "ga_val_ret", "done"}
       /\ pc # "done" => /\ gg.res = -1
                         /\ hist.fault = "mem" => gg.io_errno = ""
       /\ pc = "done" =>
            result = Raised(IF hist.fault = "mem" THEN PyErr("MemoryError")
                            ELSE IOError("EACCES"))

C5_Witness ==
    /\ pc = "done" /\ call.op = "get_all" /\ hist.fault # ""
    /\ hist.readOk # {} /\ result.status = "error"

\* C6: the names get_all returns are, in order, a subsequence of the listing
\* the kernel gave at the start of the call, and each of them had an attribute
\* when its value was read.
C6_NamesFromListing ==
    (pc = "done" /\ call.op = "get_all" /\ result.status = "ok")
    => /\ IsSubSeq(ReturnedNames, hist.listing)
       /\ Range(ReturnedNames) \subseteq hist.readOk

\* C7: a value longer than ESTIMATE_ATTR_SIZE that was set is returned by the
\* following get in full and unchanged, through the ERANGE retry.
C7_BufferGrowth ==
    (/\ pc = "done" /\ call.op = "get"
     /\ hist.before.op = "set"
     /\ Len(hist.before.value) > ESTIMATE_ATTR_SIZE
     /\ BeforeName = Qualified(call.ns, call.name)
     /\ hist.fault = "")
    => result = Ok(hist.before.value)

\* a set call is made, from its entry to its end
SetStep == pc = "idle" /\ pc' = "done" /\ call'.op = "set"

\* C8: set with XATTR_CREATE fails with IOError when the attribute exists,
\* set with XATTR_REPLACE fails with IOError when it does not, set with
\* flags 0 succeeds either way, and a set that fails leaves the attributes
\* as they were.
C8_FlagSemantics ==
    [][(SetStep /\ hist'.fault = "" /\ convert_obj(call'.item, call'.nofollow).rc = 0)
       => LET q == Qualified(call'.ns, call'.name)
              ex == Has(store[Seen], q)
          IN  /\ (call'.flags = XATTR_CREATE(platform) /\ ex)
                 => result'.status = "error" /\ result'.pyerr.type = "IOError"
              /\ (call'.flags = XATTR_REPLACE(platform) /\ ~ex)
                 => result'.status = "error" /\ result'.pyerr.type = "IOError"
              /\ call'.flags = 0
                 => /\ result' = Ok(<<>>)
                    /\ Has(store'[Seen], q)
                    /\ ValueOf(store'[Seen], q) = call'.value
              /\ result'.status = "error" => store' = store]_vars

\* a remove call is made, from its entry to its end
RemoveStep == pc = "idle" /\ pc' = "done" /\ call'.op = "remove"

\* C9: remove of an attribute that exists succeeds; a second remove of the
\* same name right after it raises IOError with the not-found errno and
\* leaves the attributes as the first remove left them.
C9_RemoveTwice ==
    [][(RemoveStep /\ hist'.fault = "" /\ convert_obj(call'.item, call'.nofollow).rc = 0)
       => LET q == Qualified(call'.ns, call'.name)
          IN  /\ Has(store[Seen], q)
                 => result' = Ok(<<>>) /\ ~Has(store'[Seen], q)
              /\ (hist.prev.op = "remove"
                  /\ Qualified(hist.prev.ns, hist.prev.name) = q)
                 => /\ result' = Raised(IOError(ENOATTR(platform)))
                    /\ store' = store]_vars

C9_Witness ==
    /\ pc = "done" /\ call.op = "remove" /\ hist.fault = ""
    /\ hist.before.op = "remove"
    /\ BeforeName = Qualified(call.ns, call.name)
    /\ result.status = "error"

\* C10: after set(name, value, namespace=ns) with a non-empty ns: get with
\* the same name and ns returns the value; list and get_all with that ns
\* contain the bare name (get_all with the value); list without a namespace
\* contains ns.name.
C10_NamespaceRoundTrip ==
    (/\ pc = "done" /\ hist.fault = ""
     /\ hist.before.op = "set"
     /\ hist.before.ns # NULL /\ hist.before.ns # <<>>)
    => /\ (call.op = "get" /\ call.ns = hist.before.ns
           /\ call.name = hist.before.name)
          => result = Ok(hist.before.value)
       /\ (call.op = "list" /\ call.ns = hist.before.ns)
          => result.status = "ok" /\ hist.before.name \in Range(result.value)
       /\ (call.op = "get_all" /\ call.ns = hist.before.ns)
          => /\ result.status = "ok"
             /\ <<hist.before.name, hist.before.value>> \in Range(result.value)
       /\ (call.op = "list" /\ call.ns = NULL)
          => result.status = "ok" /\ BeforeName \in Range(result.value)

\* C11: matches_ns(ns, candidate) returns the candidate itself when ns is
\* absent or empty; otherwise it returns the suffix when the candidate is ns,
\* one ".", and a suffix that is not empty, and NULL in every other case.
C11_Strip ==
    (pc = "done" /\ call.op = "matches_ns")
    => LET ns == call.ns
           cand == call.name
           sufs == {s \in {SubSeq(cand, i, Len(cand)) : i \in 1..Len(cand)} :
                        cand = ns \o <<".">> \o s}
       IN  IF ns = NULL \/ ns = <<>> THEN result = Ok(cand)
           ELSE IF sufs = {} THEN result = Ok(NULL)
           ELSE \E s \in sufs : result = Ok(s)

C11_Witness ==
    /\ pc = "done" /\ call.op = "matches_ns"
    /\ call.ns = NS_USER /\ call.name = NS_USER \o <<".">>
    /\ result = Ok(NULL)

\* C12: merge_ns(ns, name) gives ns, ".", name in full when ns is present
\* and not empty, and name itself when ns is absent or empty; the ValueError
\* of lines 198-203 is never raised.
C12_Qualify ==
    (pc = "done" /\ call.op = "merge_ns")
    => /\ result.pyerr.type # "ValueError"
       /\ hist.fault = ""
          => result = Ok(IF call.ns = NULL \/ call.ns = <<>> THEN call.name
                         ELSE call.ns \o <<".">> \o call.name)

C12_Witness ==
    /\ pc = "done" /\ call.op = "merge_ns"
    /\ call.ns = NS_USER /\ Len(call.name) = MaxNameLen
    /\ result.status = "ok" /\ Len(result.value) = Len(NS_USER) + 1 + MaxNameLen

\* the file the variant of the target of the call c stands for
InodeOf(c) ==
    IF c.item.kind = "int" THEN FdInode(c.item.fd)
    ELSE IF c.nofollow THEN NoFollow(c.item.path)
    ELSE Follow(c.item.path)

TargetInode == InodeOf(call)

\* C13: get, list, set and remove act on the file of the target's variant:
\* a path on the file the path leads to, a nofollow path on the link itself,
\* a descriptor on its open file.  So a get with nofollow of a name the link
\* lacks fails with the not-found errno whatever the file behind it has.
C13_Dispatch ==
    (pc = "done" /\ ValidTarget /\ hist.fault = ""
     /\ call.op \in {"get", "list", "set", "remove"})
    => LET q == Qualified(call.ns, call.name)
           st == store[TargetInode]
       IN  /\ call.op = "get"
              => result = IF Has(st, q) THEN Ok(ValueOf(st, q))
                          ELSE Raised(IOError(ENOATTR(platform)))
           /\ (call.op = "list" /\ (call.ns = NULL \/ call.ns = <<>>))
              => result = Ok(NamesOf(st))
           /\ (call.op = "set" /\ result.status = "ok")
              => Has(st, q) /\ ValueOf(st, q) = call.value
           /\ (call.op = "remove" /\ result.status = "ok")
              => ~Has(st, q)

\* C14: while a call is running its target has exactly the variant its
\* arguments ask for: T_LINK for a path with nofollow, T_PATH for a path
\* without, T_FD for a descriptor whatever nofollow is; it names the path or
\* the descriptor given.  The variant is the same in every state of the call.
C14_OneVariant ==
    (pc \notin {"idle", "done"})
    => IF call.item.kind = "int"
       THEN tgt.type = "T_FD" /\ tgt.fd = call.item.fd
       ELSE /\ call.item.kind \in {"bytes", "unicode"}
            /\ tgt.type = (IF call.nofollow THEN "T_LINK" ELSE "T_PATH")
            /\ tgt.name = call.item.path

C14_Witness ==
    /\ pc = "gg_reprobe" /\ call.item.kind = "int" /\ call.nofollow
    /\ tgt.type = "T_FD"

\* C15: on both platforms and for every variant of the target, set does what
\* the kernel's setxattr does with the caller's flags (0, XATTR_CREATE,
\* XATTR_REPLACE) on the file of the variant, the link itself for a nofollow
\* path: the attributes afterwards and the outcome are the kernel's.
C15_FlagsPassed ==
    [][(SetStep /\ hist'.fault = "" /\ convert_obj(call'.item, call'.nofollow).rc = 0)
       => LET i == InodeOf(call')
              k == sys_setxattr(platform, store[i],
                                Qualified(call'.ns, call'.name), call'.value,
                                call'.flags = XATTR_CREATE(platform),
                                call'.flags = XATTR_REPLACE(platform))
          IN  /\ store' = [store EXCEPT ![i] = k.st]
              /\ result' = IF k.rc = -1 THEN Raised(IOError(k.errno)) ELSE Ok(<<>>)]_vars

\* the positions _generic_get returns to
RetPcs == {"get_ret", "list_ret", "ga_list_ret", "ga_val_ret", "pyget_ret",
           "pylist_ret", "gg_ret"}

\* a step of the caller inside _generic_get
FetchStep ==
    /\ pc \in {"gg_probe", "gg_fetch", "gg_reprobe"}
    /\ hist'.envOps = hist.envOps

\* C16: a syscall of _generic_get that fails with anything but ERANGE ends
\* the fetch in that very step with -1 and an IOError of that errno; where
\* the caller asked for it, io_errno is that errno after an I/O failure and
\* 0 after a success and after a failed allocation.
C16_ErrnoVerbatim ==
    [][FetchStep =>
        /\ (hist.fault = "" /\ hist'.fault = "io")
           => /\ pc' = gg.ret /\ gg'.res = -1
              /\ gg'.pyerr = IOError("EACCES")
              /\ gg.want_errno => gg'.io_errno = "EACCES"
        /\ hist'.vanished # hist.vanished
           => /\ pc' = gg.ret /\ gg'.res = -1
              /\ gg'.pyerr = IOError(ENOATTR(platform))
              /\ gg.want_errno => gg'.io_errno = ENOATTR(platform)
        /\ pc' \in RetPcs
           => /\ gg'.res >= 0 => gg'.io_errno = "" /\ gg'.pyerr = NoErr
              /\ hist'.fault = "mem"
                 => gg'.io_errno = "" /\ gg'.pyerr = PyErr("MemoryError")
              /\ gg'.want_errno
                 => (gg'.io_errno # ""
                     <=> (gg'.res = -1 /\ gg'.pyerr.type = "IOError"))
              /\ gg'.io_errno # "" => gg'.io_errno = gg'.pyerr.errno]_vars

C16_Witness ==
    /\ pc = "ga_val_ret" /\ gg.res = -1 /\ hist.fault = "io"
    /\ gg.io_errno = "EACCES" /\ gg.pyerr = IOError("EACCES")

\* the items convert_obj makes no target of: a text path that cannot be
\* encoded, and an object that is neither a path nor a descriptor
InvalidItems == {BadUnicode, NoItem}

(* C17: when the item cannot be resolved to a path, a symlink path or a    *)
(* descriptor, or its text cannot be encoded, every public operation, the  *)
(* deprecated ones included, ends in the step that started it with an      *)
(* exception, has made no xattr syscall, and leaves the store as it was.   *)
C17_InvalidTarget ==
    [][(pc = "idle" /\ pc' # "idle" /\ call'.item \in InvalidItems)
       => /\ pc' = "done"
          /\ result'.status = "error"
          /\ result'.pyerr.type \in {"TypeError", "UnicodeError"}
          /\ ~hist'.sys
          /\ store' = store]_vars

C17_Witness ==
    /\ pc = "done" /\ call.op = "pyset" /\ call.item = NoItem
    /\ result.status = "error" /\ ~hist.sys

(* C18: every block the fetch routine allocated during an operation has    *)
(* been freed, once, when the operation returns, on every exit path:       *)
(* success, I/O error, allocation failure, with the value buffer get_all   *)
(* reuses and with attributes that change size meanwhile.                  *)
C18_BuffersFreed == pc = "done" => hist.live = 0

(* C19: the transcoded copy of a text path has been released, once, when   *)
(* the operation returns, on every exit path of every public operation.    *)
C19_TmpReleased == pc = "done" => hist.tmp = 0

(* C20: whenever _generic_get returns r >= 0, r is at most the capacity    *)
(* left in *size, and the first r bytes of the buffer are bytes the last   *)
(* getter call wrote there (for a value: the value it fetched), also after *)
(* a resize to a size asked again that was 0.                              *)
C20_ResultWithinBuffer ==
    (pc \in RetPcs /\ gg.res >= 0)
    => /\ gg.res <= gg.size
       /\ gg.res <= Len(gg.buffer.data)
       /\ gg.getter = "get" => Take(gg.buffer.data, gg.res) = hist.fetched

\* a step of the caller, not of another process
CallerStep == hist'.envOps = hist.envOps

(* C21: after ERANGE the size is asked again once, the buffer is           *)
(* reallocated to exactly the size reported (not to a multiple of the old  *)
(* one), the fetch is retried once for that resize, and the capacity left  *)
(* in *size is the last size the kernel reported.                          *)
C21_ExactResize ==
    [][/\ (CallerStep /\ pc = "gg_reprobe" /\ pc' \notin RetPcs)
          => /\ pc' = "gg_fetch"
             /\ hist'.nsys = hist.nsys + 1
             /\ gg'.size = hist'.reported
             /\ gg'.buffer.alloc = Max(hist'.reported, 1)
       /\ (CallerStep /\ pc = "gg_fetch")
          => /\ hist'.nsys = hist.nsys + 1
             /\ pc' \in RetPcs \cup {"gg_reprobe"}
       /\ (CallerStep /\ pc' \in RetPcs /\ hist'.probeAt # -1 /\ gg'.res >= 0)
          => gg'.size = hist'.reported]_vars

\* where _generic_get returns to get, list, getxattr and listxattr
SingleRetPcs == {"get_ret", "list_ret", "pyget_ret", "pylist_ret"}

(* C22: with the initial capacity ESTIMATE_ATTR_SIZE and nobody changing   *)
(* the attributes, a get or a list that reads the data has made exactly    *)
(* one syscall when the data fit the initial capacity, and exactly three   *)
(* (failed fetch, size query, fetch) when they did not.                    *)
C22_SyscallCount ==
    (pc \in SingleRetPcs /\ gg.res >= 0)
    => hist.nsys = IF gg.res <= ESTIMATE_ATTR_SIZE THEN 1 ELSE 3

C22_Witness ==
    /\ pc = "list_ret" /\ gg.res > ESTIMATE_ATTR_SIZE /\ hist.nsys = 3

(* C23: called with a capacity of 0 and no buffer, _generic_get first asks *)
(* for the size k.  A failing query is returned as an I/O error; for k = 0 *)
(* it returns 0 with nothing allocated and no further syscall; otherwise   *)
(* it allocates exactly k bytes and goes on to the fetch.                  *)
C23_ProbeFirst ==
    [][/\ (pc = "idle" /\ call'.op = "_generic_get" /\ tgt' # NoTarget
           /\ gg'.size = 0 /\ gg'.buffer = NullBuf)
          => (pc' = "gg_probe" /\ hist'.nsys = 0 /\ hist'.live = 0)
       /\ (CallerStep /\ pc = "gg_probe" /\ gg.buffer = NullBuf)
          => /\ hist'.nsys = hist.nsys + 1
             /\ IF hist'.reported = -1
                THEN /\ pc' = gg.ret /\ gg'.res = -1
                     /\ gg'.pyerr.type = "IOError" /\ hist'.live = hist.live
                ELSE IF hist'.reported = 0
                THEN /\ pc' = gg.ret /\ gg'.res = 0
                     /\ gg'.buffer = NullBuf /\ hist'.live = hist.live
                ELSE IF hist'.fault = "mem"
                THEN pc' = gg.ret /\ gg'.res = -1 /\ gg'.pyerr.type = "MemoryError"
                ELSE /\ pc' = "gg_fetch"
                     /\ gg'.size = hist'.reported
                     /\ gg'.buffer.alloc = hist'.reported
                     /\ hist'.live = hist.live + 1]_vars

C23_Witness ==
    /\ pc = "gg_ret" /\ gg.getter = "get" /\ gg.res = 0 /\ gg.buffer = NullBuf
    /\ hist.nsys = 1 /\ hist.reported = 0 /\ hist.live = 0

\* where _generic_get is at a syscall
LoopPcs == {"gg_probe", "gg_fetch", "gg_reprobe"}

(* C24: the loop of _generic_get ends only in success, in an error other   *)
(* than ERANGE or in a failed allocation; it ends whenever the other       *)
(* processes change the attributes finitely often; and a fetch that fails  *)
(* with ERANGE after a resize follows a change another process made after  *)
(* the size was asked.                                                     *)
C24_LoopEnds ==
    /\ [](pc \in LoopPcs => <>(pc \in RetPcs))
    /\ [][/\ (CallerStep /\ pc \in LoopPcs /\ pc' \notin LoopPcs)
             => /\ pc' \in RetPcs
                /\ \/ gg'.res >= 0
                   \/ gg'.pyerr.type = "MemoryError"
                   \/ gg'.pyerr.type = "IOError" /\ gg'.pyerr.errno # "ERANGE"
          /\ (CallerStep /\ pc = "gg_fetch" /\ pc' = "gg_reprobe" /\ hist.probeAt # -1)
             => hist.envOps > hist.probeAt]_vars

C24_Witness ==
    /\ pc \in RetPcs /\ gg.res >= 0 /\ hist.nsys >= 5 /\ hist.probeAt >= 1

\* the names asked of the kernel by the value fetches of the running call
FetchedNames ==
    hist.readOk \cup hist.vanished
    \cup (IF pc \in LoopPcs /\ gg.getter = "get" THEN {gg.name} ELSE {})

(* C25: get_all with a namespace makes no get syscall for a listed name    *)
(* that does not match the namespace, and the result has one entry for     *)
(* each listed name that matches and none for the others.                  *)
C25_UnmatchedSkipped ==
    call.op = "get_all"
    => /\ \A n \in FetchedNames : matches_ns(call.ns, n) # NULL
       /\ (pc = "done" /\ result.status = "ok")
          => LET kept == SelectSeq(hist.listing,
                                   LAMBDA n : matches_ns(call.ns, n) # NULL)
             IN  /\ Len(result.value) = Len(kept)
                 /\ \A i \in 1..Len(kept) :
                       result.value[i][1] = matches_ns(call.ns, kept[i])

C25_Witness ==
    /\ pc = "done" /\ call.op = "get_all" /\ call.ns = NS_USER
    /\ result.status = "ok" /\ Len(result.value) > 0
    /\ \E i \in 1..Len(hist.listing) : hist.listing[i] = SystemB

(* C26: in get_all the value buffer starts unallocated with the capacity   *)
(* ESTIMATE_ATTR_SIZE and is carried from one value to the next; whenever  *)
(* _generic_get is called for a value, the buffer is unallocated or the    *)
(* capacity is the size of the allocated buffer and not 0.                 *)
C26_ValueBufferCapacity ==
    (call.op = "get_all" /\ gg.getter = "get" /\ pc \in LoopPcs \cup {"ga_val_ret"})
    => \/ ga.buf_val = NullBuf /\ ga.nalloc = ESTIMATE_ATTR_SIZE
       \/ ga.buf_val # NullBuf /\ ga.nalloc > 0 /\ ga.nalloc = ga.buf_val.alloc

(* C27: list and listxattr split the first n bytes the kernel returned at  *)
(* the NUL bytes: one name for each slice that ends in a NUL, nothing from *)
(* the buffer behind byte n, and as many names put in as were counted, so  *)
(* that no slot of the result is left unfilled.                            *)
C27_ListSplit ==
    (pc = "done" /\ call.op \in {"list", "pylist"} /\ result.status = "ok")
    => LET ns == IF call.op = "list" THEN call.ns ELSE NULL
           kept == SelectSeq(hist.listing, LAMBDA n : matches_ns(ns, n) # NULL)
       IN  /\ Len(result.value) = Len(kept)
           /\ \A i \in 1..Len(kept) :
                 /\ result.value[i] # NULL
                 /\ result.value[i] = matches_ns(ns, kept[i])

C27_Witness ==
    /\ pc = "done" /\ call.op = "list" /\ call.ns = NS_USER
    /\ result.status = "ok" /\ Len(result.value) = 1
    /\ Len(hist.listing) = 2

(* C28: matches_ns(ns, q), where q is what merge_ns makes of ns and a name *)
(* n, is n when ns is absent or empty and when ns and n are both not       *)
(* empty; for an empty n and a non-empty ns, q is ns and "." and           *)
(* matches_ns rejects it.                                                  *)
C28_StripQualified ==
    (pc = "done" /\ call.op = "strip_qualified")
    => result = Ok(IF call.ns # NULL /\ call.ns # <<>> /\ call.name = <<>>
                   THEN NULL ELSE call.name)

C28_Witness ==
    /\ pc = "done" /\ call.op = "strip_qualified"
    /\ call.ns = NS_USER /\ call.name = NS_USER \o <<".", "u">>
    /\ result = Ok(call.name)

\* the operations that read: get, list, get_all, getxattr, listxattr
ReadOps == {"get", "list", "get_all", "pyget", "pylist"}

(* C29: get, list, get_all, getxattr and listxattr make only get and list  *)
(* syscalls and leave the attributes of every file as they were, whether   *)
(* they succeed, fail or try again.                                        *)
C29_ReadsChangeNothing ==
    [][(CallerStep /\ (call.op \in ReadOps \/ call'.op \in ReadOps))
       => /\ store' = store
          /\ pc' \in LoopPcs => gg'.getter \in {"get", "list"}]_vars

C29_Witness ==
    /\ pc = "done" /\ call.op = "get_all" /\ result.status = "ok"
    /\ Len(result.value) > 0 /\ hist.sys

\* the return label of the replacement of a deprecated function, and back
NewRet(l) ==
    CASE l = "pyget_ret" -> "get_ret"
      [] l = "pylist_ret" -> "list_ret"
      [] OTHER -> l

OldRet(l) ==
    CASE l = "get_ret" -> "pyget_ret"
      [] l = "list_ret" -> "pylist_ret"
      [] OTHER -> l

NewFrame(g) == [g EXCEPT !.ret = NewRet(@)]

OldFrame(g) == [g EXCEPT !.ret = OldRet(@)]

(* C30: each deprecated function behaves as its replacement called with the
   namespace absent.  Every step of a deprecated call (its entry, which
   converts the target and starts _generic_get or makes the one set or remove
   syscall, and its last step, which builds the result) is a step the
   replacement can take from the same state when it is given the same item,
   the same full name and no namespace, with the same result or error, the
   same store, the same syscall made and the same _generic_get frame; and the
   other way round for every replacement call whose namespace is absent.  For
   the listing, the result of each is one of the results the other can build
   from the same buffer.  The steps in between are the shared _generic_get. *)
C30_LegacyEquivalent ==
    [][/\ (pc = "idle" /\ call'.op = "pyset")
          => \E c \in {call'}, r \in {result'}, S \in {store'},
                y \in {hist'.sys}, p \in {pc'} :
                ENABLED (/\ XattrSet(c.item, c.nofollow, NameArg(NULL, c.name),
                                     c.value, c.flags)
                         /\ result' = r /\ store' = S /\ hist'.sys = y /\ pc' = p)
       /\ (pc = "idle" /\ call'.op = "set" /\ call'.ns = NULL)
          => \E c \in {call'}, r \in {result'}, S \in {store'},
                y \in {hist'.sys}, p \in {pc'} :
                ENABLED (/\ PySetXattr(c.item, c.nofollow, NameArg(NULL, c.name),
                                       c.value, c.flags)
                         /\ result' = r /\ store' = S /\ hist'.sys = y /\ pc' = p)
       /\ (pc = "idle" /\ call'.op = "pyremove")
          => \E c \in {call'}, r \in {result'}, S \in {store'},
                y \in {hist'.sys}, p \in {pc'} :
                ENABLED (/\ XattrRemove(c.item, c.nofollow, NameArg(NULL, c.name))
                         /\ result' = r /\ store' = S /\ hist'.sys = y /\ pc' = p)
       /\ (pc = "idle" /\ call'.op = "remove" /\ call'.ns = NULL)
          => \E c \in {call'}, r \in {result'}, S \in {store'},
                y \in {hist'.sys}, p \in {pc'} :
                ENABLED (/\ PyRemoveXattr(c.item, c.nofollow, NameArg(NULL, c.name))
                         /\ result' = r /\ store' = S /\ hist'.sys = y /\ pc' = p)
       /\ (pc = "idle" /\ call'.op = "pyget")
          => \E c \in {call'}, r \in {result'}, t \in {tgt'},
                g \in {NewFrame(gg')}, p \in {NewRet(pc')}, y \in {hist'.sys} :
                ENABLED (/\ XattrGet(c.item, c.nofollow, NameArg(NULL, c.name))
                         /\ result' = r /\ tgt' = t /\ gg' = g /\ pc' = p
                         /\ hist'.sys = y)
       /\ (pc = "idle" /\ call'.op = "get" /\ call'.ns = NULL)
          => \E c \in {call'}, r \in {result'}, t \in {tgt'},
                g \in {OldFrame(gg')}, p \in {OldRet(pc')}, y \in {hist'.sys} :
                ENABLED (/\ PyGetXattr(c.item, c.nofollow, NameArg(NULL, c.name))
                         /\ result' = r /\ tgt' = t /\ gg' = g /\ pc' = p
                         /\ hist'.sys = y)
       /\ (pc = "idle" /\ call'.op = "pylist")
          => \E c \in {call'}, r \in {result'}, t \in {tgt'},
                g \in {NewFrame(gg')}, p \in {NewRet(pc')}, y \in {hist'.sys} :
                ENABLED (/\ XattrList(c.item, c.nofollow, NULL)
                         /\ result' = r /\ tgt' = t /\ gg' = g /\ pc' = p
                         /\ hist'.sys = y)
       /\ (pc = "idle" /\ call'.op = "list" /\ call'.ns = NULL)
          => \E c \in {call'}, r \in {result'}, t \in {tgt'},
                g \in {OldFrame(gg')}, p \in {OldRet(pc')}, y \in {hist'.sys} :
                ENABLED (/\ PyListXattr(c.item, c.nofollow)
                         /\ result' = r /\ tgt' = t /\ gg' = g /\ pc' = p
                         /\ hist'.sys = y)
       /\ (pc = "pyget_ret")
          => \E r \in {result'}, p \in {pc'}, S \in {store'} :
                ENABLED (/\ XattrGetBuild
                         /\ result' = r /\ pc' = p /\ store' = S)
       /\ (pc = "get_ret" /\ call.ns = NULL)
          => \E r \in {result'}, p \in {pc'}, S \in {store'} :
                ENABLED (/\ PyGetXattrBuild
                         /\ result' = r /\ pc' = p /\ store' = S)
       /\ (pc = "pylist_ret") => result' \in XattrListResults
       /\ (pc = "list_ret" /\ call.ns = NULL) => result' \in PyListXattrResults
      ]_vars

C30_Witness ==
    /\ pc = "done"
    /\ call.op = "pylist"
    /\ result.status = "ok"
    /\ Len(result.value) = 2
    /\ hist.sys

=============================================================================
